---- MODULE Spec2Model ----
(***************************************************************************)
(* A model of the BufMut write cursor of src/buf/buf_mut.rs: the trait's   *)
(* default algorithms (put, put_slice, bytes_vectored_mut, the encoders)   *)
(* and its two backing implementations, the fixed view `&mut [u8]` and the *)
(* growable buffer `Vec<u8>`.                                              *)
(*                                                                         *)
(* A buffer is a record [kind, mem, pos]:                                  *)
(*   kind = "slice": mem is the underlying region the view was created     *)
(*       over and pos the number of bytes the view has been advanced past, *)
(*       so the view itself is mem[pos+1 .. Len(mem)];                     *)
(*   kind = "vec":   mem is the allocation (Len(mem) = capacity()) and     *)
(*       pos is len(); mem[pos+1 .. Len(mem)] is the uninitialized tail.   *)
(* Every operation returns a record holding the buffer after the call and  *)
(* the panic it ended with (NoPanic when it returned).                     *)
(***************************************************************************)
EXTENDS Integers, Sequences, FiniteSets, TLC

VARIABLES buf, last, steps, pc, src, off, fwd

vars == <<buf, last, steps, pc, src, off, fwd>>

(***************************************************************************)
(* Bounds of the model and constants of the program.                       *)
(***************************************************************************)
\* usize::MAX, with usize scaled down to 9 bits.
USIZE_MAX == 511

\* The largest capacity Vec::reserve grants: isize::MAX bytes.
MaxCapacity == USIZE_MAX \div 2

\* The increment Vec<u8>::bytes_mut reserves when capacity() == len().
GrowIncrement == 64

\* The longest underlying region of a fixed view.
MaxView == 3

\* The number of calls made on one buffer.
MaxSteps == 2

\* The number of calls made on one buffer when the loops run stepwise.
MaxLoopCalls == 1

\* A small capacity or length a growable buffer starts with.
SmallCap == 2

\* The largest capacity an initially empty growable buffer starts with, and
\* the length up to which every input over two byte values is tried, when
\* an input is written byte by byte.
MaxInitCap == 3

MaxShort == 3

\* A byte of the allocation that was never written.
Uninit == 0 - 1

NoPanic == "none"

Min(a, b) == IF a <= b THEN a ELSE b

Max(a, b) == IF a >= b THEN a ELSE b

\* n bytes, all equal to v.
Fill(n, v) == [i \in 1..n |-> v]

\* n distinct-looking bytes 1, 2, 3, ...
Ramp(n) == [i \in 1..n |-> i % 256]

(***************************************************************************)
(* The two implementations.                                                *)
(***************************************************************************)
\* self.len() of either implementation.
len(b) == IF b.kind = "slice" THEN Len(b.mem) - b.pos ELSE b.pos

\* Vec::capacity().
capacity(b) == Len(b.mem)

\* The bytes the cursor has passed: the written prefix.
written(b) == SubSeq(b.mem, 1, b.pos)

\* impl BufMut for &mut [u8]
slice_remaining_mut(b) == len(b)

\* A remaining_mut that reports the allocated slack instead of the horizon.
vec_remaining_mut_slack(b) == capacity(b) - len(b)

\* impl BufMut for Vec<u8>
vec_remaining_mut(b) == USIZE_MAX - len(b)

remaining_mut(b) ==
    IF b.kind = "slice" THEN slice_remaining_mut(b) ELSE vec_remaining_mut(b)

has_remaining_mut(b) == remaining_mut(b) > 0

\* A reserve that allocates anew without moving the bytes.
reserve_without_copy(b, additional) ==
    IF additional <= capacity(b) - len(b)
    THEN [buf |-> b, panic |-> NoPanic]
    ELSE LET required == len(b) + additional
             new_cap == Max(2 * capacity(b), required)
         IN  IF required > USIZE_MAX \/ new_cap > MaxCapacity
             THEN [buf |-> b, panic |-> "capacity overflow"]
             ELSE [buf |-> [b EXCEPT !.mem = Fill(new_cap, Uninit)], panic |-> NoPanic]

\* Vec::reserve(additional): a no-op when the slack suffices; otherwise the
\* capacity becomes max(2 * capacity, len + additional), the allocation is
\* moved with its bytes kept, and the call panics ("capacity overflow") when
\* len + additional overflows usize or the new capacity exceeds isize::MAX.
reserve(b, additional) ==
    IF additional <= capacity(b) - len(b)
    THEN [buf |-> b, panic |-> NoPanic]
    ELSE LET required == len(b) + additional
             new_cap == Max(2 * capacity(b), required)
         IN  IF required > USIZE_MAX \/ new_cap > MaxCapacity
             THEN [buf |-> b, panic |-> "capacity overflow"]
             ELSE [buf |-> [b EXCEPT !.mem = b.mem \o Fill(new_cap - capacity(b), Uninit)],
                   panic |-> NoPanic]

\* A bytes_mut that returns the region from its first byte.
slice_bytes_mut_from_first(b) ==
    [buf |-> b, panic |-> NoPanic, start |-> 0, len |-> Len(b.mem) - b.pos]

\* <&mut [u8]>::bytes_mut: the view itself.
slice_bytes_mut(b) ==
    [buf |-> b, panic |-> NoPanic, start |-> b.pos, len |-> Len(b.mem) - b.pos]

\* A bytes_mut that returns the tail without growing a full buffer.
vec_bytes_mut_no_reserve(b) ==
    [buf |-> b, panic |-> NoPanic, start |-> len(b), len |-> capacity(b) - len(b)]

\* A bytes_mut that reserves on every call.
vec_bytes_mut_always_reserve(b) ==
    LET r == reserve(b, GrowIncrement)
    IN  IF r.panic # NoPanic
        THEN [buf |-> r.buf, panic |-> r.panic, start |-> 0, len |-> 0]
        ELSE [buf |-> r.buf, panic |-> NoPanic,
              start |-> len(r.buf), len |-> capacity(r.buf) - len(r.buf)]

\* Vec<u8>::bytes_mut: reserve 64 when full, then the tail [len, capacity).
vec_bytes_mut(b) ==
    LET r == IF capacity(b) = len(b)
             THEN reserve(b, GrowIncrement)
             ELSE [buf |-> b, panic |-> NoPanic]
    IN  IF r.panic # NoPanic
        THEN [buf |-> r.buf, panic |-> r.panic, start |-> 0, len |-> 0]
        ELSE [buf |-> r.buf, panic |-> NoPanic,
              start |-> len(r.buf), len |-> capacity(r.buf) - len(r.buf)]

bytes_mut(b) == IF b.kind = "slice" THEN slice_bytes_mut(b) ELSE vec_bytes_mut(b)

\* An advance_mut that splits only strictly inside the view.
slice_advance_mut_strict(b, cnt) ==
    IF cnt >= len(b)
    THEN [buf |-> [b EXCEPT !.pos = Len(b.mem)], panic |-> "mid > len"]
    ELSE [buf |-> [b EXCEPT !.pos = b.pos + cnt], panic |-> NoPanic]

\* An advance_mut that keeps the head of the split instead of the tail.
slice_advance_mut_head(b, cnt) ==
    IF cnt > len(b)
    THEN [buf |-> [b EXCEPT !.pos = Len(b.mem)], panic |-> "mid > len"]
    ELSE [buf |-> [b EXCEPT !.mem = SubSeq(b.mem, 1, b.pos + cnt)], panic |-> NoPanic]

\* <&mut [u8]>::advance_mut: mem::replace(self, &mut []) empties the view,
\* split_at_mut(cnt) panics when cnt > len, else the view becomes the tail.
slice_advance_mut(b, cnt) ==
    IF cnt > len(b)
    THEN [buf |-> [b EXCEPT !.pos = Len(b.mem)], panic |-> "mid > len"]
    ELSE [buf |-> [b EXCEPT !.pos = b.pos + cnt], panic |-> NoPanic]

\* An advance_mut that records the new length without reserving.
vec_advance_mut_no_reserve(b, cnt) ==
    [buf |-> [b EXCEPT !.pos = (len(b) + cnt) % (USIZE_MAX + 1)], panic |-> NoPanic]

\* Vec<u8>::advance_mut: reserve(cnt) when cnt exceeds the slack, set_len.
vec_advance_mut(b, cnt) ==
    LET remaining == capacity(b) - len(b)
        r == IF cnt > remaining
             THEN reserve(b, cnt)
             ELSE [buf |-> b, panic |-> NoPanic]
    IN  IF r.panic # NoPanic
        THEN [buf |-> r.buf, panic |-> r.panic]
        ELSE [buf |-> [r.buf EXCEPT !.pos = len(b) + cnt], panic |-> NoPanic]

advance_mut(b, cnt) ==
    IF b.kind = "slice" THEN slice_advance_mut(b, cnt) ELSE vec_advance_mut(b, cnt)

(***************************************************************************)
(* The bulk-copy engine: put_slice and put.                                *)
(***************************************************************************)
\* A copy that stops one byte short of cnt.
copy_nonoverlapping_short(b, start, from, cnt) ==
    [b EXCEPT !.mem = SubSeq(b.mem, 1, start) \o SubSeq(from, 1, Max(cnt - 1, 0))
                        \o SubSeq(b.mem, start + Max(cnt - 1, 0) + 1, Len(b.mem))]

\* ptr::copy_nonoverlapping(from.as_ptr(), dst.as_mut_ptr(), cnt), where dst
\* is the region that starts `start` bytes into the memory of b.
copy_nonoverlapping(b, start, from, cnt) ==
    [b EXCEPT !.mem = SubSeq(b.mem, 1, start) \o SubSeq(from, 1, cnt)
                        \o SubSeq(b.mem, start + cnt + 1, Len(b.mem))]

\* An iteration of put_slice that copies from the start of src every time.
put_slice_iter_from_start(b, s, o) ==
    LET dst == bytes_mut(b)
        cnt == Min(dst.len, Len(s) - o)
    IN  IF dst.panic # NoPanic
        THEN [buf |-> dst.buf, panic |-> dst.panic, off |-> o, cnt |-> 0, dlen |-> 0]
        ELSE LET w == copy_nonoverlapping(dst.buf, dst.start, s, cnt)
                 a == advance_mut(w, cnt)
             IN  [buf |-> a.buf, panic |-> a.panic, off |-> o + cnt,
                  cnt |-> cnt, dlen |-> dst.len]

\* An iteration of put_slice that copies all that is left of src.
put_slice_iter_ignores_region(b, s, o) ==
    LET dst == bytes_mut(b)
        cnt == Len(s) - o
    IN  IF dst.panic # NoPanic
        THEN [buf |-> dst.buf, panic |-> dst.panic, off |-> o, cnt |-> 0, dlen |-> 0]
        ELSE LET w == copy_nonoverlapping(dst.buf, dst.start, SubSeq(s, o + 1, Len(s)), cnt)
                 a == advance_mut(w, cnt)
             IN  [buf |-> a.buf, panic |-> a.panic, off |-> o + cnt, cnt |-> cnt,
                  dlen |-> dst.len]

\* One iteration of the loop of put_slice, entered with offset o.
put_slice_iter(b, s, o) ==
    LET dst == bytes_mut(b)
        cnt == Min(dst.len, Len(s) - o)
    IN  IF dst.panic # NoPanic
        THEN [buf |-> dst.buf, panic |-> dst.panic, off |-> o, cnt |-> 0, dlen |-> 0]
        ELSE LET w == copy_nonoverlapping(dst.buf, dst.start, SubSeq(s, o + 1, Len(s)), cnt)
                 a == advance_mut(w, cnt)
             IN  [buf |-> a.buf, panic |-> a.panic, off |-> o + cnt,
                  cnt |-> cnt, dlen |-> dst.len]

\* The value of the one-element set S (binds an intermediate result once).
The(S) == CHOOSE x \in S : TRUE

\* The loop of put_slice from offset o on. An iteration that copies nothing
\* and does not panic leaves everything as it was: the loop never ends.
RECURSIVE put_slice_loop(_, _, _)
put_slice_loop(b, s, o) ==
    IF o < Len(s)
    THEN The({ IF it.panic # NoPanic THEN [buf |-> it.buf, panic |-> it.panic]
               ELSE IF it.cnt = 0 THEN [buf |-> it.buf, panic |-> "diverges"]
               ELSE put_slice_loop(it.buf, s, it.off)
               : it \in {put_slice_iter(b, s, o)} })
    ELSE [buf |-> b, panic |-> NoPanic]

\* A put_slice without its capacity assertion.
put_slice_unchecked(b, s) == put_slice_loop(b, s, 0)

\* A put_slice whose loop tests its condition after the first iteration.
put_slice_enters_loop(b, s) ==
    IF ~(remaining_mut(b) >= Len(s))
    THEN [buf |-> b, panic |-> "buffer overflow"]
    ELSE The({ IF it.panic # NoPanic THEN [buf |-> it.buf, panic |-> it.panic]
               ELSE put_slice_loop(it.buf, s, it.off)
               : it \in {put_slice_iter(b, s, 0)} })

\* BufMut::put_slice
put_slice(b, s) ==
    IF ~(remaining_mut(b) >= Len(s))
    THEN [buf |-> b, panic |-> "buffer overflow"]
    ELSE put_slice_loop(b, s, 0)

\* The read cursor put takes its bytes from: a sequence of non-empty
\* contiguous chunks, the first one being the readable region.
RECURSIVE src_remaining(_)
src_remaining(c) == IF c = <<>> THEN 0 ELSE Len(Head(c)) + src_remaining(Tail(c))

src_has_remaining(c) == src_remaining(c) > 0

src_bytes(c) == IF c = <<>> THEN <<>> ELSE Head(c)

src_advance(c, l) ==
    IF l = 0 THEN c
    ELSE IF l = Len(Head(c)) THEN Tail(c)
    ELSE <<SubSeq(Head(c), l + 1, Len(Head(c)))>> \o Tail(c)

\* All bytes of a source, in order.
RECURSIVE Flatten(_)
Flatten(c) == IF c = <<>> THEN <<>> ELSE Head(c) \o Flatten(Tail(c))

\* An iteration of put that copies the whole chunk of the source.
put_iter_ignores_region(b, c) ==
    LET s == src_bytes(c)
        d == bytes_mut(b)
        l == Len(s)
    IN  IF d.panic # NoPanic
        THEN [buf |-> d.buf, panic |-> d.panic, src |-> c, l |-> 0,
              slen |-> Len(s), dlen |-> 0]
        ELSE LET w == copy_nonoverlapping(d.buf, d.start, s, l)
                 a == advance_mut(w, l)
             IN  [buf |-> a.buf, panic |-> a.panic, src |-> src_advance(c, l),
                  l |-> l, slen |-> Len(s), dlen |-> d.len]

\* One iteration of the loop of put.
put_iter(b, c) ==
    LET s == src_bytes(c)
        d == bytes_mut(b)
        l == Min(Len(s), d.len)
    IN  IF d.panic # NoPanic
        THEN [buf |-> d.buf, panic |-> d.panic, src |-> c, l |-> 0,
              slen |-> Len(s), dlen |-> 0]
        ELSE LET w == copy_nonoverlapping(d.buf, d.start, s, l)
                 a == advance_mut(w, l)
             IN  [buf |-> a.buf, panic |-> a.panic, src |-> src_advance(c, l),
                  l |-> l, slen |-> Len(s), dlen |-> d.len]

RECURSIVE put_loop(_, _)
put_loop(b, c) ==
    IF src_has_remaining(c)
    THEN The({ IF it.panic # NoPanic
               THEN [buf |-> it.buf, panic |-> it.panic, src |-> it.src]
               ELSE IF it.l = 0
               THEN [buf |-> it.buf, panic |-> "diverges", src |-> it.src]
               ELSE put_loop(it.buf, it.src)
               : it \in {put_iter(b, c)} })
    ELSE [buf |-> b, panic |-> NoPanic, src |-> c]

\* BufMut::put
put(b, c) ==
    IF ~(remaining_mut(b) >= src_remaining(c))
    THEN [buf |-> b, panic |-> "assertion failed", src |-> c]
    ELSE put_loop(b, c)

\* BufMut::bytes_vectored_mut (the default): dst is the caller's array of
\* regions, each a record [start, len].
bytes_vectored_mut(b, dst) ==
    IF dst = <<>>
    THEN [buf |-> b, panic |-> NoPanic, ret |-> 0, dst |-> dst]
    ELSE IF has_remaining_mut(b)
    THEN LET d == bytes_mut(b)
         IN  IF d.panic # NoPanic
             THEN [buf |-> d.buf, panic |-> d.panic, ret |-> 0, dst |-> dst]
             ELSE [buf |-> d.buf, panic |-> NoPanic, ret |-> 1,
                   dst |-> [dst EXCEPT ![1] = [start |-> d.start, len |-> d.len]]]
    ELSE [buf |-> b, panic |-> NoPanic, ret |-> 0, dst |-> dst]

(***************************************************************************)
(* The encoders. An integer of w >= 2 bytes is kept in w \div 2 limbs of    *)
(* 16 bits, the least significant first. The limbs of an unsigned integer  *)
(* are in 0..65535; the top limb of a signed integer carries the sign      *)
(* (-32768..32767), so that the value is the sum of limb[j] * 65536^j. An  *)
(* 8-bit integer is a plain number (0..255, or -128..127 when signed).     *)
(***************************************************************************)
\* Byte k (0 = least significant) of the two's complement form of n.
byte_at(n, k) == (n[(k \div 2) + 1] \div (256 ^ (k % 2))) % 256

\* n.to_be_bytes() and n.to_le_bytes() of a w-byte integer.
to_be_bytes(n, w) == [i \in 1..w |-> byte_at(n, w - i)]

to_le_bytes_as_be(n, w) == to_be_bytes(n, w)

to_le_bytes(n, w) == [i \in 1..w |-> byte_at(n, i - 1)]

\* f32::to_bits and f64::to_bits: the IEEE-754 bit pattern of the sign, the
\* biased exponent and the fraction (the fraction of an f64 in limbs, the top
\* one of 4 bits).
f32_to_bits(f) ==
    <<f.frac % 65536, f.sign * 32768 + f.exp * 128 + (f.frac \div 65536)>>

f64_to_bits(f) ==
    <<f.frac[1], f.frac[2], f.frac[3], f.sign * 32768 + f.exp * 16 + f.frac[4]>>

put_u8(b, n) == put_slice(b, <<n>>)

\* put_i8: let src = [n as u8].
put_i8(b, n) == put_slice(b, <<n % 256>>)

put_u16(b, n) == put_slice(b, to_be_bytes(n, 2))

put_u16_le(b, n) == put_slice(b, to_le_bytes(n, 2))

put_i16(b, n) == put_slice(b, to_be_bytes(n, 2))

put_i16_le_as_be(b, n) == put_slice(b, to_be_bytes(n, 2))

put_i16_le(b, n) == put_slice(b, to_le_bytes(n, 2))

put_u32(b, n) == put_slice(b, to_be_bytes(n, 4))

put_u32_le(b, n) == put_slice(b, to_le_bytes(n, 4))

put_i32(b, n) == put_slice(b, to_be_bytes(n, 4))

put_i32_le(b, n) == put_slice(b, to_le_bytes(n, 4))

put_u64(b, n) == put_slice(b, to_be_bytes(n, 8))

put_u64_le(b, n) == put_slice(b, to_le_bytes(n, 8))

put_i64(b, n) == put_slice(b, to_be_bytes(n, 8))

put_i64_le(b, n) == put_slice(b, to_le_bytes(n, 8))

put_u128(b, n) == put_slice(b, to_be_bytes(n, 16))

put_u128_le(b, n) == put_slice(b, to_le_bytes(n, 16))

put_i128(b, n) == put_slice(b, to_be_bytes(n, 16))

put_i128_le(b, n) == put_slice(b, to_le_bytes(n, 16))

put_uint_leading(b, n, nbytes) ==
    IF nbytes > 8
    THEN [buf |-> b, panic |-> "slice index"]
    ELSE put_slice(b, SubSeq(to_be_bytes(n, 8), 1, nbytes))

\* put_uint: &n.to_be_bytes()[size_of_val(&n) - nbytes..] panics when
\* nbytes > 8 (the subtraction overflows, or the range start is out of range).
put_uint(b, n, nbytes) ==
    IF nbytes > 8
    THEN [buf |-> b, panic |-> "slice index"]
    ELSE put_slice(b, SubSeq(to_be_bytes(n, 8), 8 - nbytes + 1, 8))

\* put_uint_le: &n.to_le_bytes()[0..nbytes] panics when nbytes > 8.
put_uint_le(b, n, nbytes) ==
    IF nbytes > 8
    THEN [buf |-> b, panic |-> "slice index"]
    ELSE put_slice(b, SubSeq(to_le_bytes(n, 8), 1, nbytes))

put_int(b, n, nbytes) ==
    IF nbytes > 8
    THEN [buf |-> b, panic |-> "slice index"]
    ELSE put_slice(b, SubSeq(to_be_bytes(n, 8), 8 - nbytes + 1, 8))

put_int_le_clamped(b, n, nbytes) ==
    put_slice(b, SubSeq(to_le_bytes(n, 8), 1, Min(nbytes, 8)))

put_int_le(b, n, nbytes) ==
    IF nbytes > 8
    THEN [buf |-> b, panic |-> "slice index"]
    ELSE put_slice(b, SubSeq(to_le_bytes(n, 8), 1, nbytes))

put_f32(b, n) == put_u32(b, f32_to_bits(n))

put_f32_le(b, n) == put_u32_le(b, f32_to_bits(n))

put_f64(b, n) == put_u64(b, f64_to_bits(n))

put_f64_le(b, n) == put_u64_le(b, f64_to_bits(n))

(***************************************************************************)
(* The forwarding implementations: impl BufMut for &mut T (what by_ref()   *)
(* returns) and for Box<T>. A wrapper is [kind, inner], inner the cursor   *)
(* it points to. The four required methods delegate; put_slice is the      *)
(* trait's default method running on the wrapper's own methods.            *)
(***************************************************************************)
\* by_ref(): a &mut Self to the cursor; Box::new(b).
by_ref(b) == [kind |-> "ref", inner |-> b]

boxed(b) == [kind |-> "box", inner |-> b]

fwd_remaining_mut(r) == remaining_mut(r.inner)

fwd_has_remaining_mut(r) == fwd_remaining_mut(r) > 0

fwd_bytes_mut_on_copy(r) ==
    LET d == bytes_mut(r.inner)
    IN  [buf |-> r, panic |-> d.panic, start |-> d.start, len |-> d.len]

fwd_bytes_mut(r) ==
    LET d == bytes_mut(r.inner)
    IN  [buf |-> [r EXCEPT !.inner = d.buf], panic |-> d.panic,
         start |-> d.start, len |-> d.len]

fwd_bytes_vectored_mut(r, dst) ==
    LET v == bytes_vectored_mut(r.inner, dst)
    IN  [buf |-> [r EXCEPT !.inner = v.buf], panic |-> v.panic,
         ret |-> v.ret, dst |-> v.dst]

fwd_advance_mut(r, cnt) ==
    LET a == advance_mut(r.inner, cnt)
    IN  [buf |-> [r EXCEPT !.inner = a.buf], panic |-> a.panic]

\* One iteration of the default put_slice on a wrapper.
fwd_put_slice_iter(r, s, o) ==
    LET dst == fwd_bytes_mut(r)
        cnt == Min(dst.len, Len(s) - o)
    IN  IF dst.panic # NoPanic
        THEN [buf |-> dst.buf, panic |-> dst.panic, off |-> o, cnt |-> 0]
        ELSE LET w == copy_nonoverlapping(dst.buf.inner, dst.start,
                                          SubSeq(s, o + 1, Len(s)), cnt)
                 a == fwd_advance_mut([dst.buf EXCEPT !.inner = w], cnt)
             IN  [buf |-> a.buf, panic |-> a.panic, off |-> o + cnt, cnt |-> cnt]

RECURSIVE fwd_put_slice_loop(_, _, _)
fwd_put_slice_loop(r, s, o) ==
    IF o < Len(s)
    THEN The({ IF it.panic # NoPanic THEN [buf |-> it.buf, panic |-> it.panic]
               ELSE IF it.cnt = 0 THEN [buf |-> it.buf, panic |-> "diverges"]
               ELSE fwd_put_slice_loop(it.buf, s, it.off)
               : it \in {fwd_put_slice_iter(r, s, o)} })
    ELSE [buf |-> r, panic |-> NoPanic]

fwd_put_slice(r, s) ==
    IF ~(fwd_remaining_mut(r) >= Len(s))
    THEN [buf |-> r, panic |-> "buffer overflow"]
    ELSE fwd_put_slice_loop(r, s, 0)

(***************************************************************************)
(* The inputs the calls are made with.                                     *)
(***************************************************************************)
\* A fixed view over a zeroed array of n bytes: &mut [0; n][..].
FixedView(n) == [kind |-> "slice", mem |-> Fill(n, 0), pos |-> 0]

\* Vec::with_capacity(c); vec![] is WithCapacity(0).
WithCapacity(c) == [kind |-> "vec", mem |-> Fill(c, Uninit), pos |-> 0]

\* vec![0; n]: n written bytes in an allocation of exactly n bytes.
Zeroed(n) == [kind |-> "vec", mem |-> Fill(n, 0), pos |-> n]

\* b"hello", the slice of the example of put_slice.
Hello == <<104, 101, 108, 108, 111>>

InitBufs ==
    {FixedView(n) : n \in 0..MaxView} \cup {FixedView(Len(Hello) + 1)}
      \cup {WithCapacity(c) : c \in {0, SmallCap, MaxCapacity}}
      \cup {Zeroed(n) : n \in {SmallCap, MaxCapacity}}

\* The byte slices put_slice is called with.
SliceInputs ==
    {<<>>, <<1>>, <<2>>, <<1, 1>>, <<1, 2>>, <<2, 1>>, <<2, 2>>,
     <<1, 2, 3>>, <<1, 2, 3, 4>>, Hello, Ramp(GrowIncrement + 1),
     Ramp(MaxCapacity)}

\* The sources put is called with: contiguous ones and fragmented ones.
SourceInputs ==
    {<<>>, <<(<<1>>)>>, <<(<<1, 2>>)>>, <<(<<1>>), (<<2>>)>>,
     <<(<<1>>), (<<2, 3>>)>>, <<(<<1, 2>>), (<<3, 4>>)>>,
     <<Ramp(GrowIncrement), (<<7, 8>>)>>, <<Ramp(MaxCapacity), (<<9>>)>>}

\* The counts advance_mut is called with.
AdvanceCounts == {0, 1, 2, 3, GrowIncrement + 1, MaxCapacity, USIZE_MAX}

\* The arrays bytes_vectored_mut is called with; Unset is an entry the
\* caller filled in before the call.
Unset == [start |-> USIZE_MAX, len |-> 0]

DstInputs == {<<>>, <<Unset>>, <<Unset, Unset>>}

\* The widths put_uint and put_uint_le are called with.
NBytes == {0, 1, 3, 8, 9}

(***************************************************************************)
(* The state: the buffer, the record of the last call made on it, and the  *)
(* number of calls so far. pc, src and off are the position and the locals *)
(* of a call that is in its loop (used when the loops are run stepwise);   *)
(* fwd is a wrapper (&mut T, Box<T>) of a second cursor, when one is used.  *)
(***************************************************************************)
\* The record of a call: the operation, the buffer before it, the panic it
\* ended with, its numeric argument (cnt, nbytes, the length of the input),
\* the bytes it was asked to write, its numeric result, and its structured
\* argument before (arg) and after (out) the call: the source of put, the
\* array of bytes_vectored_mut, the region of bytes_mut.
Call(op, pre, panic, cnt, bytes, ret, arg, out) ==
    [op |-> op, pre |-> pre, panic |-> panic, cnt |-> cnt, bytes |-> bytes,
     ret |-> ret, arg |-> arg, out |-> out]

NoCall(b) == Call("new", b, NoPanic, 0, <<>>, 0, <<>>, <<>>)

\* No wrapper is in use.
NoWrapper == [kind |-> "none"]

Init ==
    /\ buf \in InitBufs
    /\ last = NoCall(buf)
    /\ steps = 0
    /\ pc = "idle"
    /\ src = <<>>
    /\ off = 0
    /\ fwd = NoWrapper

\* A call can be made: the previous one returned and the budget is not spent.
CanCall == pc = "idle" /\ last.panic = NoPanic /\ steps < MaxSteps

Idle == UNCHANGED <<pc, src, off, fwd>>

RemainingMut ==
    /\ CanCall
    /\ last' = Call("remaining_mut", buf, NoPanic, 0, <<>>, remaining_mut(buf), <<>>, <<>>)
    /\ steps' = steps + 1
    /\ UNCHANGED buf
    /\ Idle

HasRemainingMut ==
    /\ CanCall
    /\ last' = Call("has_remaining_mut", buf, NoPanic, 0, <<>>,
                    IF has_remaining_mut(buf) THEN 1 ELSE 0, <<>>, <<>>)
    /\ steps' = steps + 1
    /\ UNCHANGED buf
    /\ Idle

BytesMut ==
    /\ CanCall
    /\ LET r == bytes_mut(buf)
       IN  /\ buf' = r.buf
           /\ last' = Call("bytes_mut", buf, r.panic, 0, <<>>, r.len, <<>>,
                           [start |-> r.start, len |-> r.len])
    /\ steps' = steps + 1
    /\ Idle

BytesVectoredMut ==
    /\ CanCall
    /\ \E dst \in DstInputs :
         LET r == bytes_vectored_mut(buf, dst)
         IN  /\ buf' = r.buf
             /\ last' = Call("bytes_vectored_mut", buf, r.panic, Len(dst), <<>>,
                             r.ret, dst, r.dst)
    /\ steps' = steps + 1
    /\ Idle

AdvanceMut ==
    /\ CanCall
    /\ \E cnt \in AdvanceCounts :
         LET r == advance_mut(buf, cnt)
         IN  /\ buf' = r.buf
             /\ last' = Call("advance_mut", buf, r.panic, cnt, <<>>, 0, <<>>, <<>>)
    /\ steps' = steps + 1
    /\ Idle

PutSlice ==
    /\ CanCall
    /\ \E s \in SliceInputs :
         LET r == put_slice(buf, s)
         IN  /\ buf' = r.buf
             /\ last' = Call("put_slice", buf, r.panic, Len(s), s, 0, <<>>, <<>>)
    /\ steps' = steps + 1
    /\ Idle

Put ==
    /\ CanCall
    /\ \E c \in SourceInputs :
         LET r == put(buf, c)
         IN  /\ buf' = r.buf
             /\ last' = Call("put", buf, r.panic, src_remaining(c), Flatten(c), 0,
                             c, r.src)
    /\ steps' = steps + 1
    /\ Idle

PutU8 ==
    /\ CanCall
    /\ \E n \in {1, 255} :
         LET r == put_u8(buf, n)
         IN  /\ buf' = r.buf
             /\ last' = Call("put_u8", buf, r.panic, 1, <<n>>, 0, <<>>, <<>>)
    /\ steps' = steps + 1
    /\ Idle

PutU16 ==
    /\ CanCall
    /\ \E n \in {<<258>>} :
         LET r == put_u16(buf, n)
         IN  /\ buf' = r.buf
             /\ last' = Call("put_u16", buf, r.panic, 2, to_be_bytes(n, 2), 0, <<>>, <<>>)
    /\ steps' = steps + 1
    /\ Idle

PutU16Le ==
    /\ CanCall
    /\ \E n \in {<<258>>} :
         LET r == put_u16_le(buf, n)
         IN  /\ buf' = r.buf
             /\ last' = Call("put_u16_le", buf, r.panic, 2, to_le_bytes(n, 2), 0, <<>>, <<>>)
    /\ steps' = steps + 1
    /\ Idle

PutUint ==
    /\ CanCall
    /\ \E n \in {<<515, 1, 0, 0>>}, nbytes \in NBytes :
         LET r == put_uint(buf, n, nbytes)
         IN  /\ buf' = r.buf
             /\ last' = Call("put_uint", buf, r.panic, nbytes,
                             SubSeq(to_be_bytes(n, 8), 8 - Min(nbytes, 8) + 1, 8),
                             0, <<>>, <<>>)
    /\ steps' = steps + 1
    /\ Idle

PutUintLe ==
    /\ CanCall
    /\ \E n \in {<<515, 1, 0, 0>>}, nbytes \in NBytes :
         LET r == put_uint_le(buf, n, nbytes)
         IN  /\ buf' = r.buf
             /\ last' = Call("put_uint_le", buf, r.panic, nbytes,
                             SubSeq(to_le_bytes(n, 8), 1, Min(nbytes, 8)),
                             0, <<>>, <<>>)
    /\ steps' = steps + 1
    /\ Idle

Next ==
    \/ RemainingMut
    \/ HasRemainingMut
    \/ BytesMut
    \/ BytesVectoredMut
    \/ AdvanceMut
    \/ PutSlice
    \/ Put
    \/ PutU8
    \/ PutU16
    \/ PutU16Le
    \/ PutUint
    \/ PutUintLe

Spec == Init /\ [][Next]_vars

(***************************************************************************)
(* Properties of single calls.                                             *)
(***************************************************************************)
\* The operations that write through put_slice.
WritingOps == {"put_slice", "put_u8", "put_u16", "put_u16_le", "put_uint", "put_uint_le"}

\* The operations that only look at the cursor.
ObservingOps == {"remaining_mut", "has_remaining_mut", "bytes_mut", "bytes_vectored_mut"}

\* The largest position a buffer can hold: the end of the fixed view's
\* region, or a total length of usize::MAX.
Horizon(b) == IF b.kind = "slice" THEN Len(b.mem) ELSE USIZE_MAX

\* C1: on either implementation, put_slice(s) with len(s) <= remaining_mut()
\* returns without panic, the len(s) bytes from the position held before the
\* call equal s, and remaining_mut() has decreased by exactly len(s).
C1_PutSliceWritesAll ==
    (last.op = "put_slice" /\ Len(last.bytes) <= remaining_mut(last.pre)) =>
        /\ last.panic = NoPanic
        /\ SubSeq(buf.mem, last.pre.pos + 1, last.pre.pos + Len(last.bytes)) = last.bytes
        /\ remaining_mut(buf) = remaining_mut(last.pre) - Len(last.bytes)

\* C2: on a fixed view, put_slice(s) and every encoder whose bytes exceed
\* remaining_mut() panic with "buffer overflow" and leave the view's position
\* and every byte of the underlying region as they were.
C2_OverflowIsAtomic ==
    (/\ last.op \in WritingOps
     /\ last.pre.kind = "slice"
     /\ last.cnt = Len(last.bytes)
     /\ Len(last.bytes) > remaining_mut(last.pre)) =>
        /\ last.panic = "buffer overflow"
        /\ buf = last.pre

C2_Witness ==
    /\ last.op = "put_slice"
    /\ last.pre.kind = "slice"
    /\ last.pre.pos > 0
    /\ remaining_mut(last.pre) > 0
    /\ Len(last.bytes) > remaining_mut(last.pre)
    /\ last.panic = "buffer overflow"

\* C3: put(src) with remaining_mut() < src.remaining() panics with nothing
\* copied and neither cursor advanced; otherwise it returns, has copied
\* exactly the bytes of src in order, has advanced the destination by
\* src.remaining() and has consumed the source.
C3_PutAllOrNothing ==
    last.op = "put" =>
        IF remaining_mut(last.pre) >= last.cnt
        THEN /\ last.panic = NoPanic
             /\ SubSeq(buf.mem, last.pre.pos + 1, last.pre.pos + last.cnt) = last.bytes
             /\ buf.pos = last.pre.pos + last.cnt
             /\ last.out = <<>>
        ELSE /\ last.panic # NoPanic
             /\ buf = last.pre
             /\ last.out = last.arg

\* C4: in every reachable state, bytes_mut() returns an empty region if and
\* only if remaining_mut() returns 0.
C4_EmptyIffNoRemaining ==
    (bytes_mut(buf).panic = NoPanic /\ bytes_mut(buf).len = 0)
        <=> (remaining_mut(buf) = 0)

C4_Witness ==
    /\ last.op = "bytes_mut"
    /\ last.pre.kind = "vec"
    /\ last.pre.pos > 0
    /\ capacity(last.pre) = len(last.pre)
    /\ last.panic = NoPanic
    /\ last.ret > 0

\* C5: bytes_mut() panics in no reachable state of either implementation.
C5_BytesMutNeverPanics == bytes_mut(buf).panic = NoPanic

\* C6: in every reachable state advance_mut(0) returns without panic and
\* leaves the position, the length, the capacity and the contents unchanged.
C6_AdvanceZeroIsNoOp ==
    /\ advance_mut(buf, 0).panic = NoPanic
    /\ advance_mut(buf, 0).buf = buf

C6_Witness ==
    /\ last.op = "advance_mut"
    /\ last.cnt = 0
    /\ last.pre.kind = "slice"
    /\ Len(last.pre.mem) > 0
    /\ len(last.pre) = 0
    /\ last.panic = NoPanic
    /\ buf = last.pre

\* C7: advance_mut(cnt) with cnt > remaining_mut() panics or leaves the cursor
\* as advance_mut(remaining_mut()) would; on a fixed view it panics; and no
\* advance_mut moves the position past the capacity horizon.
C7_AdvancePastEnd ==
    last.op = "advance_mut" =>
        /\ buf.pos <= Horizon(buf)
        /\ last.cnt > remaining_mut(last.pre) =>
              /\ \/ last.panic # NoPanic
                 \/ buf = advance_mut(last.pre, remaining_mut(last.pre)).buf
              /\ last.pre.kind = "slice" => last.panic # NoPanic

C7_Witness ==
    /\ last.op = "advance_mut"
    /\ last.pre.kind = "vec"
    /\ last.cnt > remaining_mut(last.pre)
    /\ last.panic # NoPanic
    /\ buf = last.pre

\* C8: remaining_mut(), has_remaining_mut(), bytes_mut() and
\* bytes_vectored_mut() leave the value of remaining_mut(), the length and the
\* bytes already written unchanged, also when bytes_mut() reserves capacity.
C8_ObserversKeepPosition ==
    last.op \in ObservingOps =>
        /\ remaining_mut(buf) = remaining_mut(last.pre)
        /\ len(buf) = len(last.pre)
        /\ written(buf) = written(last.pre)

C8_Witness ==
    /\ last.op = "bytes_mut"
    /\ last.pre.kind = "vec"
    /\ last.pre.pos > 0
    /\ capacity(buf) > capacity(last.pre)
    /\ written(buf) = written(last.pre)

(***************************************************************************)
(* Growth: the bytes of one input written one call at a time into an       *)
(* initially empty growable buffer. src is the input, off the number of    *)
(* its bytes written so far, last.pre the buffer the run started from.     *)
(***************************************************************************)
\* The inputs: every sequence of up to MaxShort bytes over {1, 2}, and inputs long
\* enough to need two reservations and more than reserve grants.
GrowInputs ==
    UNION {[1..n -> {1, 2}] : n \in 0..MaxShort}
      \cup {Ramp(GrowIncrement + 2), Ramp(2 * GrowIncrement), Ramp(MaxCapacity)}

InitGrow ==
    /\ buf \in {WithCapacity(c) : c \in 0..MaxInitCap}
    /\ last = NoCall(buf)
    /\ steps = 0
    /\ pc = "bytes"
    /\ src \in GrowInputs
    /\ off = 0
    /\ fwd = NoWrapper

MoreBytes == pc = "bytes" /\ off < Len(src) /\ last.panic = NoPanic

\* buf.put_u8(src[off])
PutByte ==
    /\ MoreBytes
    /\ LET r == put_u8(buf, src[off + 1])
       IN  /\ buf' = r.buf
           /\ last' = [last EXCEPT !.panic = r.panic]
           /\ off' = IF r.panic = NoPanic THEN off + 1 ELSE off
    /\ UNCHANGED <<steps, pc, src, fwd>>

\* buf.put_slice(&src[off..off + 1])
PutOneByteSlice ==
    /\ MoreBytes
    /\ LET r == put_slice(buf, SubSeq(src, off + 1, off + 1))
       IN  /\ buf' = r.buf
           /\ last' = [last EXCEPT !.panic = r.panic]
           /\ off' = IF r.panic = NoPanic THEN off + 1 ELSE off
    /\ UNCHANGED <<steps, pc, src, fwd>>

NextGrow ==
    \/ PutByte
    \/ PutOneByteSlice

SpecGrow == InitGrow /\ [][NextGrow]_vars

\* C9: once the bytes of s were written one at a time into an initially empty
\* growable buffer (or the run ended in a panic), the length and the content
\* are those one put_slice(s) on the same initially empty buffer ends with.
C9_GrowthKeepsBytes ==
    (pc = "bytes" /\ (off = Len(src) \/ last.panic # NoPanic)) =>
        /\ put_slice(last.pre, src).panic = last.panic
        /\ len(put_slice(last.pre, src).buf) = len(buf)
        /\ written(put_slice(last.pre, src).buf) = written(buf)

C9_Witness ==
    /\ pc = "bytes"
    /\ off = Len(src)
    /\ last.panic = NoPanic
    /\ capacity(last.pre) > 0
    /\ capacity(buf) > capacity(last.pre) + GrowIncrement
    /\ written(buf) = src

(***************************************************************************)
(* The loops of put_slice and put, one iteration at a time. While a call   *)
(* is in its loop, pc names it, src is its source (the read cursor of put, *)
(* the slice of put_slice as a single chunk) and off the offset of         *)
(* put_slice; last.ret and last.out describe the last iteration.           *)
(***************************************************************************)
\* A call can be made: no call is running, none has panicked.
CanCallLoop == pc = "idle" /\ last.panic = NoPanic /\ steps < MaxLoopCalls

CallPutSlice ==
    /\ CanCallLoop
    /\ \E s \in SliceInputs :
         IF ~(remaining_mut(buf) >= Len(s))
         THEN /\ last' = Call("put_slice", buf, "buffer overflow", Len(s), s, 0, <<>>, <<>>)
              /\ UNCHANGED <<pc, src, off>>
         ELSE /\ last' = Call("put_slice", buf, NoPanic, Len(s), s, 0, <<>>, <<>>)
              /\ pc' = "put_slice"
              /\ src' = <<s>>
              /\ off' = 0
    /\ steps' = steps + 1
    /\ UNCHANGED <<buf, fwd>>

PutSliceIter ==
    /\ pc = "put_slice"
    /\ off < Len(src[1])
    /\ LET it == put_slice_iter(buf, src[1], off)
       IN  /\ buf' = it.buf
           /\ off' = it.off
           /\ last' = [last EXCEPT !.panic = it.panic, !.ret = it.cnt,
                                   !.out = [avail |-> Len(src[1]) - off, dlen |-> it.dlen]]
           /\ pc' = IF it.panic # NoPanic THEN "idle" ELSE pc
    /\ UNCHANGED <<steps, src, fwd>>

PutSliceReturn ==
    /\ pc = "put_slice"
    /\ ~(off < Len(src[1]))
    /\ pc' = "idle"
    /\ src' = <<>>
    /\ off' = 0
    /\ UNCHANGED <<buf, last, steps, fwd>>

CallPut ==
    /\ CanCallLoop
    /\ \E c \in SourceInputs :
         IF ~(remaining_mut(buf) >= src_remaining(c))
         THEN /\ last' = Call("put", buf, "assertion failed", src_remaining(c),
                              Flatten(c), 0, c, c)
              /\ UNCHANGED <<pc, src>>
         ELSE /\ last' = Call("put", buf, NoPanic, src_remaining(c), Flatten(c), 0, c, c)
              /\ pc' = "put"
              /\ src' = c
    /\ steps' = steps + 1
    /\ UNCHANGED <<buf, off, fwd>>

PutIter ==
    /\ pc = "put"
    /\ src_has_remaining(src)
    /\ LET it == put_iter(buf, src)
       IN  /\ buf' = it.buf
           /\ src' = it.src
           /\ last' = [last EXCEPT !.panic = it.panic, !.ret = it.l,
                                   !.out = [avail |-> it.slen, dlen |-> it.dlen]]
           /\ pc' = IF it.panic # NoPanic THEN "idle" ELSE pc
    /\ UNCHANGED <<steps, off, fwd>>

PutReturn ==
    /\ pc = "put"
    /\ ~src_has_remaining(src)
    /\ pc' = "idle"
    /\ src' = <<>>
    /\ UNCHANGED <<buf, last, steps, off, fwd>>

NextLoop ==
    \/ CallPutSlice
    \/ PutSliceIter
    \/ PutSliceReturn
    \/ CallPut
    \/ PutIter
    \/ PutReturn

\* A step of a call that is in its loop.
LoopStep == PutSliceIter \/ PutSliceReturn \/ PutIter \/ PutReturn

\* A call that entered its loop keeps running: the code is sequential.
SpecLoop == Init /\ [][NextLoop]_vars /\ WF_vars(LoopStep)

\* C10: every iteration of the loop of put that runs to its end copies at
\* least one byte and strictly decreases src.remaining(), every such
\* iteration of the loop of put_slice strictly increases the offset, and a
\* call that entered its loop leaves it.
C10_LoopsTerminate ==
    /\ [][(pc = "put" /\ pc' = "put") =>
            /\ src_remaining(src') < src_remaining(src)
            /\ buf'.pos > buf.pos]_vars
    /\ [][(pc = "put_slice" /\ pc' = "put_slice") => off' > off]_vars
    /\ (pc # "idle") ~> (pc = "idle")

C10_Witness ==
    /\ pc = "put"
    /\ buf.kind = "vec"
    /\ buf.pos > last.pre.pos
    /\ capacity(buf) > capacity(last.pre)
    /\ Len(src) = 1

(***************************************************************************)
(* The encoders, each called with the edge values of its type on buffers   *)
(* with room, without room, and at the capacity ceiling.                   *)
(***************************************************************************)
\* The number of encoder calls made on one buffer.
MaxEncCalls == 1

\* The length of the fixed view that has room for the widest encoder.
EncView == 17

\* &mut a[p..] over a zeroed array a of n bytes.
ViewFrom(n, p) == [kind |-> "slice", mem |-> Fill(n, 0), pos |-> p]

EncBufs ==
    {FixedView(EncView), ViewFrom(EncView, 1), FixedView(SmallCap),
     WithCapacity(0), Zeroed(SmallCap), Zeroed(MaxCapacity)}

\* A small mathematical integer v as an integer of nl limbs (nl >= 2).
FromInt(v, nl) ==
    [j \in 1..nl |->
        IF j = 1 THEN v % 65536
        ELSE IF j = 2 /\ nl = 2 THEN v \div 65536
        ELSE IF j = 2 THEN (v \div 65536) % 65536
        ELSE IF j < nl THEN (IF v < 0 THEN 65535 ELSE 0)
        ELSE (IF v < 0 THEN 0 - 1 ELSE 0)]

\* The values the encoders are called with: 0, a value with distinct bytes,
\* the largest value, the most negative value and -1.
U8Values == {0, 1, 255}

I8Values == {0, 1, 127, 0 - 128, 0 - 1}

U16Values == {<<0>>, <<258>>, <<65535>>}

I16Values == {<<0>>, <<258>>, <<32767>>, <<0 - 32768>>, <<0 - 1>>}

U32Values == {<<0, 0>>, <<772, 258>>, <<65535, 65535>>}

I32Values ==
    {<<0, 0>>, <<772, 258>>, <<65535, 32767>>, <<0, 0 - 32768>>, <<65535, 0 - 1>>}

U64Values ==
    {<<0, 0, 0, 0>>, <<1800, 1286, 772, 258>>, <<65535, 65535, 65535, 65535>>}

I64Values ==
    {<<0, 0, 0, 0>>, <<1800, 1286, 772, 258>>, <<65535, 65535, 65535, 32767>>,
     <<0, 0, 0, 0 - 32768>>, <<65535, 65535, 65535, 0 - 1>>}

U128Values ==
    {<<0, 0, 0, 0, 0, 0, 0, 0>>,
     <<3856, 3342, 2828, 2314, 1800, 1286, 772, 258>>,
     <<65535, 65535, 65535, 65535, 65535, 65535, 65535, 65535>>}

I128Values ==
    {<<0, 0, 0, 0, 0, 0, 0, 0>>,
     <<3856, 3342, 2828, 2314, 1800, 1286, 772, 258>>,
     <<65535, 65535, 65535, 65535, 65535, 65535, 65535, 32767>>,
     <<0, 0, 0, 0, 0, 0, 0, 0 - 32768>>,
     <<65535, 65535, 65535, 65535, 65535, 65535, 65535, 0 - 1>>}

\* 1.0, -2.5 (0xC0200000), the largest subnormal and a NaN with a payload.
F32Values ==
    {[sign |-> 0, exp |-> 127, frac |-> 0],
     [sign |-> 1, exp |-> 128, frac |-> 2097152],
     [sign |-> 0, exp |-> 0, frac |-> 8388607],
     [sign |-> 1, exp |-> 255, frac |-> 4194305]}

\* 1.0, -2.5 (0xC004000000000000), the largest subnormal, a NaN with a payload.
F64Values ==
    {[sign |-> 0, exp |-> 1023, frac |-> <<0, 0, 0, 0>>],
     [sign |-> 1, exp |-> 1024, frac |-> <<0, 0, 0, 4>>],
     [sign |-> 0, exp |-> 0, frac |-> <<65535, 65535, 65535, 15>>],
     [sign |-> 1, exp |-> 2047, frac |-> <<1, 0, 0, 8>>]}

\* The widths the variable-width encoders are called with.
EncNBytes == 0..10

\* The largest and the most negative integer of k bytes, k in 1..4.
IntMax(k) == (2 ^ (8 * k - 2)) + ((2 ^ (8 * k - 2)) - 1)

IntMin(k) == 0 - IntMax(k) - 1

\* The unsigned 64-bit values of the narrow widths: 0x010203 and the largest
\* value of 1, 2 and 3 bytes.
UintValues == {FromInt(v, 4) : v \in {66051, 255, 65535, 16777215}}

\* The signed 64-bit values of the narrow widths.
IntValues ==
    {FromInt(v, 4) : v \in {66051, 0 - 66051} \cup {IntMax(k) : k \in 1..4}
                             \cup {IntMin(k) : k \in 1..4}}

InitEnc ==
    /\ buf \in EncBufs
    /\ last = NoCall(buf)
    /\ steps = 0
    /\ pc = "idle"
    /\ src = <<>>
    /\ off = 0
    /\ fwd = NoWrapper

CanEncode == pc = "idle" /\ last.panic = NoPanic /\ steps < MaxEncCalls

\* The call of an encoder of w bytes with the value n, with the result r.
Encoded(op, r, w, n) ==
    /\ buf' = r.buf
    /\ last' = Call(op, buf, r.panic, w, <<>>, 0, n, <<>>)
    /\ steps' = steps + 1
    /\ Idle

EncU8 ==
    /\ CanEncode
    /\ \E n \in U8Values : Encoded("put_u8", put_u8(buf, n), 1, n)

EncI8 ==
    /\ CanEncode
    /\ \E n \in I8Values : Encoded("put_i8", put_i8(buf, n), 1, n)

EncU16 ==
    /\ CanEncode
    /\ \E n \in U16Values : Encoded("put_u16", put_u16(buf, n), 2, n)

EncU16Le ==
    /\ CanEncode
    /\ \E n \in U16Values : Encoded("put_u16_le", put_u16_le(buf, n), 2, n)

EncI16 ==
    /\ CanEncode
    /\ \E n \in I16Values : Encoded("put_i16", put_i16(buf, n), 2, n)

EncI16Le ==
    /\ CanEncode
    /\ \E n \in I16Values : Encoded("put_i16_le", put_i16_le(buf, n), 2, n)

EncU32 ==
    /\ CanEncode
    /\ \E n \in U32Values : Encoded("put_u32", put_u32(buf, n), 4, n)

EncU32Le ==
    /\ CanEncode
    /\ \E n \in U32Values : Encoded("put_u32_le", put_u32_le(buf, n), 4, n)

EncI32 ==
    /\ CanEncode
    /\ \E n \in I32Values : Encoded("put_i32", put_i32(buf, n), 4, n)

EncI32Le ==
    /\ CanEncode
    /\ \E n \in I32Values : Encoded("put_i32_le", put_i32_le(buf, n), 4, n)

EncU64 ==
    /\ CanEncode
    /\ \E n \in U64Values : Encoded("put_u64", put_u64(buf, n), 8, n)

EncU64Le ==
    /\ CanEncode
    /\ \E n \in U64Values : Encoded("put_u64_le", put_u64_le(buf, n), 8, n)

EncI64 ==
    /\ CanEncode
    /\ \E n \in I64Values : Encoded("put_i64", put_i64(buf, n), 8, n)

EncI64Le ==
    /\ CanEncode
    /\ \E n \in I64Values : Encoded("put_i64_le", put_i64_le(buf, n), 8, n)

EncU128 ==
    /\ CanEncode
    /\ \E n \in U128Values : Encoded("put_u128", put_u128(buf, n), 16, n)

EncU128Le ==
    /\ CanEncode
    /\ \E n \in U128Values : Encoded("put_u128_le", put_u128_le(buf, n), 16, n)

EncI128 ==
    /\ CanEncode
    /\ \E n \in I128Values : Encoded("put_i128", put_i128(buf, n), 16, n)

EncI128Le ==
    /\ CanEncode
    /\ \E n \in I128Values : Encoded("put_i128_le", put_i128_le(buf, n), 16, n)

EncF32 ==
    /\ CanEncode
    /\ \E n \in F32Values : Encoded("put_f32", put_f32(buf, n), 4, n)

EncF32Le ==
    /\ CanEncode
    /\ \E n \in F32Values : Encoded("put_f32_le", put_f32_le(buf, n), 4, n)

EncF64 ==
    /\ CanEncode
    /\ \E n \in F64Values : Encoded("put_f64", put_f64(buf, n), 8, n)

EncF64Le ==
    /\ CanEncode
    /\ \E n \in F64Values : Encoded("put_f64_le", put_f64_le(buf, n), 8, n)

EncUint ==
    /\ CanEncode
    /\ \E n \in U64Values \cup UintValues, nbytes \in EncNBytes :
         Encoded("put_uint", put_uint(buf, n, nbytes), nbytes, n)

EncUintLe ==
    /\ CanEncode
    /\ \E n \in U64Values \cup UintValues, nbytes \in EncNBytes :
         Encoded("put_uint_le", put_uint_le(buf, n, nbytes), nbytes, n)

EncInt ==
    /\ CanEncode
    /\ \E n \in I64Values \cup IntValues, nbytes \in EncNBytes :
         Encoded("put_int", put_int(buf, n, nbytes), nbytes, n)

EncIntLe ==
    /\ CanEncode
    /\ \E n \in I64Values \cup IntValues, nbytes \in EncNBytes :
         Encoded("put_int_le", put_int_le(buf, n, nbytes), nbytes, n)

NextEnc ==
    \/ EncU8
    \/ EncI8
    \/ EncU16
    \/ EncU16Le
    \/ EncI16
    \/ EncI16Le
    \/ EncU32
    \/ EncU32Le
    \/ EncI32
    \/ EncI32Le
    \/ EncU64
    \/ EncU64Le
    \/ EncI64
    \/ EncI64Le
    \/ EncU128
    \/ EncU128Le
    \/ EncI128
    \/ EncI128Le
    \/ EncF32
    \/ EncF32Le
    \/ EncF64
    \/ EncF64Le
    \/ EncUint
    \/ EncUintLe
    \/ EncInt
    \/ EncIntLe

SpecEnc == InitEnc /\ [][NextEnc]_vars

(***************************************************************************)
(* Properties of the encoders.                                             *)
(***************************************************************************)
\* The k bytes the last call left at the position held before it.
Wrote(k) == SubSeq(buf.mem, last.pre.pos + 1, last.pre.pos + k)

\* The first and the last k elements of a sequence.
First(s, k) == SubSeq(s, 1, k)

Last(s, k) == SubSeq(s, Len(s) - k + 1, Len(s))

\* The last call advanced the position by k and changed no byte outside the
\* k bytes at the position held before it.
WroteExactly(k) ==
    /\ buf.pos = last.pre.pos + k
    /\ SubSeq(buf.mem, 1, last.pre.pos) = SubSeq(last.pre.mem, 1, last.pre.pos)
    /\ last.pre.kind = "slice" =>
          /\ Len(buf.mem) = Len(last.pre.mem)
          /\ SubSeq(buf.mem, buf.pos + 1, Len(buf.mem))
                = SubSeq(last.pre.mem, buf.pos + 1, Len(buf.mem))
    /\ last.pre.kind = "vec" =>
          \A i \in (buf.pos + 1)..Len(buf.mem) : buf.mem[i] = Uninit

BigEndianVar == {"put_uint", "put_int"}

LittleEndianVar == {"put_uint_le", "put_int_le"}

\* C11: a returning put_uint(n, nbytes) or put_int(n, nbytes) with
\* nbytes <= 8 has written exactly nbytes bytes, the last nbytes bytes of the
\* 8-byte big-endian form of n; put_uint_le and put_int_le have written the
\* first nbytes bytes of the little-endian form; the position has advanced by
\* nbytes; nbytes = 0 returns with the buffer unchanged; 0x010203 with
\* nbytes = 3 gives 01 02 03, respectively 03 02 01.
C11_VariableWidthSlices ==
    (last.op \in BigEndianVar \cup LittleEndianVar /\ last.cnt <= 8) =>
        /\ last.cnt = 0 => (last.panic = NoPanic /\ buf = last.pre)
        /\ last.panic = NoPanic =>
              /\ WroteExactly(last.cnt)
              /\ last.op \in BigEndianVar =>
                    Wrote(last.cnt) = Last(to_be_bytes(last.arg, 8), last.cnt)
              /\ last.op \in LittleEndianVar =>
                    Wrote(last.cnt) = First(to_le_bytes(last.arg, 8), last.cnt)
              /\ (last.arg = <<515, 1, 0, 0>> /\ last.cnt = 3) =>
                    Wrote(3) = (IF last.op \in BigEndianVar
                                THEN <<1, 2, 3>> ELSE <<3, 2, 1>>)

C11_Witness ==
    /\ last.op = "put_uint"
    /\ last.arg = <<515, 1, 0, 0>>
    /\ last.cnt = 3
    /\ last.pre.kind = "vec"
    /\ last.pre.pos > 0
    /\ last.panic = NoPanic
    /\ Wrote(3) = <<1, 2, 3>>
    /\ buf.pos = last.pre.pos + 3

\* The decoders (Buf::get_*): the integer of Len(s) bytes read from s in
\* big-endian or little-endian order, in limb form, the top limb taken as
\* signed when signed is TRUE. An 8-bit integer is a plain number.
signed_limb(l, signed) == IF signed /\ l >= 32768 THEN l - 65536 ELSE l

from_le_bytes(s, signed) ==
    [j \in 1..(Len(s) \div 2) |->
        LET l == s[2 * j - 1] + 256 * s[2 * j]
        IN  IF 2 * j = Len(s) THEN signed_limb(l, signed) ELSE l]

Reverse(s) == [i \in 1..Len(s) |-> s[Len(s) - i + 1]]

from_be_bytes(s, signed) == from_le_bytes(Reverse(s), signed)

get_u8(s) == s[1]

get_i8(s) == IF s[1] >= 128 THEN s[1] - 256 ELSE s[1]

\* get_uint and get_int read nbytes = Len(s) bytes and widen them to 64 bits,
\* with zeros, respectively with copies of the sign bit.
sign_fill(s) == IF s # <<>> /\ s[Len(s)] >= 128 THEN 255 ELSE 0

get_uint_le(s) == from_le_bytes(s \o Fill(8 - Len(s), 0), FALSE)

get_uint(s) == get_uint_le(Reverse(s))

get_int_le(s) == from_le_bytes(s \o Fill(8 - Len(s), sign_fill(s)), TRUE)

get_int(s) == get_int_le(Reverse(s))

\* The decoder of each encoder.
Decoded(op, s) ==
    CASE op = "put_u8" -> get_u8(s)
      [] op = "put_i8" -> get_i8(s)
      [] op \in {"put_u16", "put_u32", "put_u64", "put_u128"} -> from_be_bytes(s, FALSE)
      [] op \in {"put_i16", "put_i32", "put_i64", "put_i128"} -> from_be_bytes(s, TRUE)
      [] op \in {"put_u16_le", "put_u32_le", "put_u64_le", "put_u128_le"} ->
            from_le_bytes(s, FALSE)
      [] op \in {"put_i16_le", "put_i32_le", "put_i64_le", "put_i128_le"} ->
            from_le_bytes(s, TRUE)
      [] op = "put_uint" -> get_uint(s)
      [] op = "put_uint_le" -> get_uint_le(s)
      [] op = "put_int" -> get_int(s)
      [] op = "put_int_le" -> get_int_le(s)

IntegerEncoders ==
    {"put_u8", "put_i8", "put_u16", "put_u16_le", "put_i16", "put_i16_le",
     "put_u32", "put_u32_le", "put_i32", "put_i32_le", "put_u64", "put_u64_le",
     "put_i64", "put_i64_le", "put_u128", "put_u128_le", "put_i128", "put_i128_le"}

\* The 64-bit value n is in the range of an unsigned, respectively a signed,
\* integer of k bytes (k in 0..8).
FitsUnsigned(n, k) ==
    \A j \in 1..4 :
        IF 2 * j <= k THEN TRUE
        ELSE IF 2 * j - 1 = k THEN n[j] >= 0 /\ n[j] < 256
        ELSE n[j] = 0

FitsSigned(n, k) ==
    IF k = 0 THEN n = <<0, 0, 0, 0>>
    ELSE IF n[4] >= 0
    THEN /\ FitsUnsigned(n, k)
         /\ n[(k + 1) \div 2] < (IF k % 2 = 0 THEN 32768 ELSE 128)
    ELSE \A j \in 1..4 :
            IF 2 * j < k THEN TRUE
            ELSE IF 2 * j = k THEN (j = 4 \/ n[j] >= 32768)
            ELSE IF 2 * j - 1 = k THEN (IF j = 4 THEN n[j] >= 0 - 128 ELSE n[j] >= 65408)
            ELSE n[j] = (IF j = 4 THEN 0 - 1 ELSE 65535)

\* C12: decoding the bytes a returning encoder has written, at the same
\* width, signedness and byte order (get_int extending the sign), gives back
\* the encoded value: for the fixed widths 1, 2, 4, 8 and 16, and for
\* put_uint / put_int and their _le forms with every value in the range of
\* nbytes bytes.
C12_RoundTrip ==
    last.panic = NoPanic =>
        /\ last.op \in IntegerEncoders =>
              Decoded(last.op, Wrote(last.cnt)) = last.arg
        /\ (last.op \in {"put_uint", "put_uint_le"} /\ FitsUnsigned(last.arg, last.cnt)) =>
              Decoded(last.op, Wrote(last.cnt)) = last.arg
        /\ (last.op \in {"put_int", "put_int_le"} /\ FitsSigned(last.arg, last.cnt)) =>
              Decoded(last.op, Wrote(last.cnt)) = last.arg

\* The most negative value of 3 bytes, written by put_int_le and read back.
C12_Witness ==
    /\ last.op = "put_int_le"
    /\ last.cnt = 3
    /\ last.arg = <<0, 65408, 65535, 0 - 1>>
    /\ last.panic = NoPanic
    /\ Wrote(3) = <<0, 0, 128>>
    /\ get_int_le(Wrote(3)) = last.arg

FloatEncoders == {"put_f32", "put_f32_le", "put_f64", "put_f64_le"}

FixedEncoders == IntegerEncoders \cup FloatEncoders

\* The width in bytes of the type each fixed-width encoder takes.
Width(op) ==
    CASE op \in {"put_u8", "put_i8"} -> 1
      [] op \in {"put_u16", "put_u16_le", "put_i16", "put_i16_le"} -> 2
      [] op \in {"put_u32", "put_u32_le", "put_i32", "put_i32_le",
                 "put_f32", "put_f32_le"} -> 4
      [] op \in {"put_u64", "put_u64_le", "put_i64", "put_i64_le",
                 "put_f64", "put_f64_le"} -> 8
      [] op \in {"put_u128", "put_u128_le", "put_i128", "put_i128_le"} -> 16

\* The result of the big-endian encoder of the same type on the buffer b.
BigEndianOf(op, b, n) ==
    CASE op = "put_u16_le" -> put_u16(b, n)
      [] op = "put_i16_le" -> put_i16(b, n)
      [] op = "put_u32_le" -> put_u32(b, n)
      [] op = "put_i32_le" -> put_i32(b, n)
      [] op = "put_u64_le" -> put_u64(b, n)
      [] op = "put_i64_le" -> put_i64(b, n)
      [] op = "put_u128_le" -> put_u128(b, n)
      [] op = "put_i128_le" -> put_i128(b, n)
      [] op = "put_f32_le" -> put_f32(b, n)
      [] op = "put_f64_le" -> put_f64(b, n)

LittleEndianFixed ==
    {"put_u16_le", "put_i16_le", "put_u32_le", "put_i32_le", "put_u64_le",
     "put_i64_le", "put_u128_le", "put_i128_le", "put_f32_le", "put_f64_le"}

\* The integer 0x0102..0w of w bytes, whose big-endian form is 1, 2, .., w.
Distinct(w) ==
    [j \in 1..(w \div 2) |-> (w - (2 * j - 2)) + 256 * (w - (2 * j - 1))]

\* The big-endian forms of 1.0 and -2.5 (0x3F800000, 0xC0200000,
\* 0x3FF0000000000000, 0xC004000000000000).
FloatExample(n, w) ==
    IF n.sign = 0
    THEN (IF w = 4 THEN <<63, 128>> ELSE <<63, 240>>) \o Fill(w - 2, 0)
    ELSE (IF w = 4 THEN <<192, 32>> ELSE <<192, 4>>) \o Fill(w - 2, 0)

\* The most significant byte of an integer in limb form.
TopByte(n) == (n[Len(n)] \div 256) % 256

\* C13: a returning fixed-width encoder of a type of w bytes has advanced the
\* position by exactly w and written w bytes: the big-endian encoder the most
\* significant byte first (0x0102..0w as 01 02 .. 0w), the little-endian
\* encoder the reverse of what the big-endian encoder writes; put_u32 of
\* 0x01020304 into an empty Vec leaves 01 02 03 04, put_u32_le 04 03 02 01.
C13_FixedWidthOrder ==
    (last.op \in FixedEncoders /\ last.panic = NoPanic) =>
        LET w == Width(last.op)
        IN  /\ last.cnt = w
            /\ WroteExactly(w)
            /\ (last.op \in IntegerEncoders \ LittleEndianFixed /\ w > 1) =>
                  /\ Wrote(w)[1] = TopByte(last.arg)
                  /\ last.arg = Distinct(w) => Wrote(w) = Ramp(w)
            /\ (last.op \in {"put_f32", "put_f64"} /\ last.arg.exp \in {127, 128, 1023, 1024}) =>
                  Wrote(w) = FloatExample(last.arg, w)
            /\ last.op \in LittleEndianFixed =>
                  LET be == BigEndianOf(last.op, last.pre, last.arg)
                  IN  /\ be.panic = NoPanic
                      /\ Wrote(w) = Reverse(SubSeq(be.buf.mem, last.pre.pos + 1,
                                                   last.pre.pos + w))
            /\ (last.op = "put_u32" /\ last.arg = <<772, 258>> /\ last.pre = WithCapacity(0)) =>
                  written(buf) = <<1, 2, 3, 4>>
            /\ (last.op = "put_u32_le" /\ last.arg = <<772, 258>> /\ last.pre = WithCapacity(0)) =>
                  written(buf) = <<4, 3, 2, 1>>

C13_Witness ==
    /\ last.op = "put_u32_le"
    /\ last.arg = <<772, 258>>
    /\ last.pre = WithCapacity(0)
    /\ last.panic = NoPanic
    /\ written(buf) = <<4, 3, 2, 1>>
    /\ len(buf) = 4

\* C16: put_uint, put_int, put_uint_le and put_int_le called with nbytes > 8
\* panic and leave the buffer (position, length, capacity and every byte) as
\* it was, on both implementations and whatever capacity remains.
C16_WidthAboveEightFails ==
    (last.op \in BigEndianVar \cup LittleEndianVar /\ last.cnt > 8) =>
        /\ last.panic # NoPanic
        /\ buf = last.pre

C16_Witness ==
    /\ last.op = "put_int_le"
    /\ last.cnt = 9
    /\ last.pre = FixedView(EncView)
    /\ remaining_mut(last.pre) > last.cnt
    /\ last.panic = "slice index"
    /\ buf = last.pre


(***************************************************************************)
(* Properties of bytes_vectored_mut and of the forwarding implementations. *)
(***************************************************************************)
\* C14: bytes_vectored_mut(dst) never panics; it returns 0 and leaves dst
\* as it was when dst is empty or remaining_mut() is 0; otherwise it returns
\* 1, sets dst[0] to the region bytes_mut() returns and leaves the other
\* entries; the filled length is at most remaining_mut(); no byte of the
\* buffer is modified.
C14_VectoredDefault ==
    last.op = "bytes_vectored_mut" =>
        /\ last.panic = NoPanic
        /\ IF last.cnt = 0 \/ remaining_mut(last.pre) = 0
           THEN last.ret = 0 /\ last.out = last.arg
           ELSE /\ last.ret = 1
                /\ last.out[1] = [start |-> bytes_mut(last.pre).start,
                                  len |-> bytes_mut(last.pre).len]
                /\ \A i \in 2..last.cnt : last.out[i] = last.arg[i]
                /\ last.out[1].len <= remaining_mut(last.pre)
        /\ Len(last.out) = last.cnt
        /\ buf.pos = last.pre.pos
        /\ \A i \in 1..Len(last.pre.mem) : buf.mem[i] = last.pre.mem[i]

(***************************************************************************)
(* The same calls made on a cursor (buf) and through a wrapper of a cursor *)
(* that started in the same state (fwd). last records the direct call and, *)
(* in last.out, what the wrapper's call returned.                          *)
(***************************************************************************)
\* The number of calls made on the pair.
MaxFwdCalls == 2

InitFwd ==
    /\ buf \in InitBufs
    /\ last = NoCall(buf)
    /\ steps = 0
    /\ pc = "idle"
    /\ src = <<>>
    /\ off = 0
    /\ fwd \in {by_ref(buf), boxed(buf)}

CanForward == pc = "idle" /\ last.panic = NoPanic /\ steps < MaxFwdCalls

\* The direct call returned d and the wrapper's call returned w.
Forwarded(op, d, w, cnt, bytes, dret, wret) ==
    /\ buf' = d.buf
    /\ fwd' = w.buf
    /\ last' = Call(op, buf, d.panic, cnt, bytes, dret, fwd,
                    [panic |-> w.panic, ret |-> wret])
    /\ steps' = steps + 1
    /\ UNCHANGED <<pc, src, off>>

FwdRemainingMut ==
    /\ CanForward
    /\ Forwarded("remaining_mut", [buf |-> buf, panic |-> NoPanic],
                 [buf |-> fwd, panic |-> NoPanic], 0, <<>>,
                 remaining_mut(buf), fwd_remaining_mut(fwd))

FwdBytesMut ==
    /\ CanForward
    /\ LET d == bytes_mut(buf)
           w == fwd_bytes_mut(fwd)
       IN  Forwarded("bytes_mut", d, w, 0, <<>>,
                     [start |-> d.start, len |-> d.len],
                     [start |-> w.start, len |-> w.len])

FwdBytesVectoredMut ==
    /\ CanForward
    /\ \E dst \in DstInputs :
         LET d == bytes_vectored_mut(buf, dst)
             w == fwd_bytes_vectored_mut(fwd, dst)
         IN  Forwarded("bytes_vectored_mut", d, w, Len(dst), <<>>,
                       [ret |-> d.ret, dst |-> d.dst], [ret |-> w.ret, dst |-> w.dst])

FwdAdvanceMut ==
    /\ CanForward
    /\ \E cnt \in AdvanceCounts :
         Forwarded("advance_mut", advance_mut(buf, cnt), fwd_advance_mut(fwd, cnt),
                   cnt, <<>>, 0, 0)

FwdPutSlice ==
    /\ CanForward
    /\ \E s \in SliceInputs :
         Forwarded("put_slice", put_slice(buf, s), fwd_put_slice(fwd, s),
                   Len(s), s, 0, 0)

NextFwd ==
    \/ FwdRemainingMut
    \/ FwdBytesMut
    \/ FwdBytesVectoredMut
    \/ FwdAdvanceMut
    \/ FwdPutSlice

SpecFwd == InitFwd /\ [][NextFwd]_vars

\* C15: after any sequence of remaining_mut, bytes_mut, bytes_vectored_mut,
\* advance_mut and put_slice made through a &mut T (by_ref()) or a Box<T>,
\* the wrapped cursor is in the state (position, length, capacity, contents)
\* the same calls made directly leave it in, and every call returned (or
\* panicked) as the direct call did.
C15_ForwardingIsTransparent ==
    /\ fwd.inner = buf
    /\ last.op # "new" =>
          /\ last.out.panic = last.panic
          /\ last.out.ret = last.ret

C15_Witness ==
    /\ last.op = "put_slice"
    /\ fwd.kind = "ref"
    /\ last.pre.kind = "vec"
    /\ last.pre.pos > 0
    /\ capacity(buf) > capacity(last.pre)
    /\ last.cnt > 0
    /\ last.panic = NoPanic
    /\ fwd.inner = buf

(***************************************************************************)
(* Properties of the two implementations.                                  *)
(***************************************************************************)
\* C17: on a fixed view of length L, advance_mut(cnt) with cnt <= L returns,
\* remaining_mut() becomes L - cnt, and no byte of the underlying region
\* changes; the region of a view never changes its length; a view of length
\* 6 after put_slice("hello") has remaining_mut() 1, "hello" in the first 5
\* bytes of the region and the 6th byte as it was.
C17_ViewBecomesItsTail ==
    /\ buf.kind = "slice" => Len(buf.mem) = Len(last.pre.mem)
    /\ (last.op = "advance_mut" /\ last.pre.kind = "slice"
            /\ last.cnt <= slice_remaining_mut(last.pre)) =>
          /\ last.panic = NoPanic
          /\ remaining_mut(buf) = slice_remaining_mut(last.pre) - last.cnt
          /\ buf.mem = last.pre.mem
    /\ (last.op = "put_slice" /\ last.bytes = Hello
            /\ last.pre = FixedView(Len(Hello) + 1)) =>
          /\ last.panic = NoPanic
          /\ remaining_mut(buf) = 1
          /\ SubSeq(buf.mem, 1, 5) = <<104, 101, 108, 108, 111>>
          /\ buf.mem[6] = last.pre.mem[6]

\* An advance inside a view that already holds written bytes.
C17_Witness ==
    /\ last.op = "advance_mut"
    /\ last.pre.kind = "slice"
    /\ last.pre.pos > 0
    /\ last.cnt > 0
    /\ last.cnt < slice_remaining_mut(last.pre)
    /\ last.panic = NoPanic
    /\ \E i \in 1..last.pre.pos : buf.mem[i] # 0
    /\ remaining_mut(buf) = slice_remaining_mut(last.pre) - last.cnt

\* C18: on a Vec, an advance_mut(cnt) with cnt > capacity - length that
\* returns has reserved at least cnt bytes past the old length and set the
\* length to length + cnt (one that panics has recorded nothing); after every
\* call length <= capacity holds, the capacity has not decreased and the
\* bytes in [0, old length) are as they were, reservations included.
C18_AdvanceReservesFirst ==
    buf.kind = "vec" =>
        /\ len(buf) <= capacity(buf)
        /\ capacity(buf) >= capacity(last.pre)
        /\ SubSeq(buf.mem, 1, len(last.pre)) = written(last.pre)
        /\ (last.op = "advance_mut" /\ last.cnt > capacity(last.pre) - len(last.pre)) =>
              IF last.panic = NoPanic
              THEN /\ len(buf) = len(last.pre) + last.cnt
                   /\ capacity(buf) >= len(last.pre) + last.cnt
              ELSE buf = last.pre

C18_Witness ==
    /\ last.op = "advance_mut"
    /\ last.pre.kind = "vec"
    /\ len(last.pre) > 0
    /\ last.cnt > capacity(last.pre) - len(last.pre)
    /\ last.panic = NoPanic
    /\ capacity(buf) > capacity(last.pre)
    /\ len(buf) = len(last.pre) + last.cnt
    /\ SubSeq(buf.mem, 1, len(last.pre)) = written(last.pre)

\* C19: on a Vec, bytes_mut() reserves (64 bytes) only when capacity ==
\* length; otherwise it leaves the capacity and returns the tail
\* [length, capacity); a bytes_mut() that follows a bytes_mut() changes
\* nothing and returns the same region; no bytes_mut() returns an empty
\* region.
C19_GrowsOnlyWhenFull ==
    buf.kind = "vec" =>
        LET d == bytes_mut(buf)
        IN  /\ capacity(buf) # len(buf) => (d.panic = NoPanic /\ d.buf = buf)
            /\ d.panic # NoPanic => d.buf = buf
            /\ d.panic = NoPanic =>
                  /\ d.start = len(buf)
                  /\ d.len = capacity(d.buf) - len(buf)
                  /\ d.len > 0
                  /\ written(d.buf) = written(buf)
                  /\ capacity(buf) = len(buf) => d.len >= GrowIncrement
                  /\ bytes_mut(d.buf) = d

C19_Witness ==
    /\ last.op = "bytes_mut"
    /\ last.pre.kind = "vec"
    /\ len(last.pre) > 0
    /\ capacity(last.pre) = len(last.pre)
    /\ last.panic = NoPanic
    /\ capacity(buf) >= len(buf) + GrowIncrement
    /\ bytes_mut(buf).buf = buf
    /\ bytes_mut(buf).len = last.ret

\* The memory m1 differs from m0 at most in the cnt bytes that follow start.
WritesWithin(m0, m1, start, cnt) ==
    /\ Len(m1) = Len(m0)
    /\ \A i \in 1..Len(m0) : (i <= start \/ i > start + cnt) => m1[i] = m0[i]

\* C20: every iteration of the loops of put_slice and put copies at most as
\* many bytes as the region bytes_mut() has just returned holds and at most
\* as many as the source has left (put: as the source's current chunk
\* holds); it writes inside that region only, and what it writes are the
\* next bytes of the source.
C20_CopyStaysInBounds ==
    /\ [][(pc = "put_slice" /\ off < Len(src[1]) /\ last'.panic = NoPanic) =>
            LET d == bytes_mut(buf)
                cnt == off' - off
            IN  /\ cnt <= d.len
                /\ cnt <= Len(src[1]) - off
                /\ buf'.pos = buf.pos + cnt
                /\ WritesWithin(d.buf.mem, buf'.mem, d.start, cnt)
                /\ SubSeq(buf'.mem, d.start + 1, d.start + cnt)
                      = SubSeq(src[1], off + 1, off + cnt)]_vars
    /\ [][(pc = "put" /\ src_has_remaining(src) /\ last'.panic = NoPanic) =>
            LET d == bytes_mut(buf)
                l == src_remaining(src) - src_remaining(src')
            IN  /\ l <= d.len
                /\ l <= Len(src_bytes(src))
                /\ buf'.pos = buf.pos + l
                /\ WritesWithin(d.buf.mem, buf'.mem, d.start, l)
                /\ SubSeq(buf'.mem, d.start + 1, d.start + l)
                      = SubSeq(src_bytes(src), 1, l)]_vars

\* An iteration of put_slice that the region, not the source, cut short.
C20_Witness ==
    /\ pc = "put_slice"
    /\ buf.kind = "vec"
    /\ off > 0
    /\ off < Len(src[1])
    /\ last.ret = last.out.dlen
    /\ last.ret < last.out.avail
    /\ written(buf) = SubSeq(src[1], 1, off)

\* C21: in every iteration of the loops of put_slice and put on a Vec whose
\* bytes_mut() returned, the count passed to advance_mut is at most
\* capacity - length, advance_mut returns and leaves the capacity as
\* bytes_mut() left it; bytes_mut() has grown the capacity only if the Vec
\* was full.
C21_NoGrowthAfterCopy ==
    /\ [][(pc = "put_slice" /\ off < Len(src[1]) /\ buf.kind = "vec"
              /\ bytes_mut(buf).panic = NoPanic) =>
            LET d == bytes_mut(buf)
            IN  /\ off' - off <= capacity(d.buf) - len(d.buf)
                /\ last'.panic = NoPanic
                /\ capacity(buf') = capacity(d.buf)
                /\ len(buf') = len(buf) + (off' - off)
                /\ capacity(d.buf) > capacity(buf) => capacity(buf) = len(buf)]_vars
    /\ [][(pc = "put" /\ src_has_remaining(src) /\ buf.kind = "vec"
              /\ bytes_mut(buf).panic = NoPanic) =>
            LET d == bytes_mut(buf)
                l == src_remaining(src) - src_remaining(src')
            IN  /\ l <= capacity(d.buf) - len(d.buf)
                /\ last'.panic = NoPanic
                /\ capacity(buf') = capacity(d.buf)
                /\ len(buf') = len(buf) + l
                /\ capacity(d.buf) > capacity(buf) => capacity(buf) = len(buf)]_vars

\* A put_slice on a Vec that has copied all of its input across a growth.
C21_Witness ==
    /\ pc = "put_slice"
    /\ buf.kind = "vec"
    /\ len(last.pre) > 0
    /\ off = Len(src[1])
    /\ capacity(buf) > capacity(last.pre)
    /\ len(buf) = len(last.pre) + off
    /\ last.panic = NoPanic

(***************************************************************************)
(* A buffer changed only through put_slice, put and the encoders.          *)
(***************************************************************************)
NextWrite ==
    \/ PutSlice
    \/ Put
    \/ PutU8
    \/ PutU16
    \/ PutU16Le
    \/ PutUint
    \/ PutUintLe

SpecWrite == Init /\ [][NextWrite]_vars

\* C22: on a Vec changed only through put, put_slice and the encoders, every
\* byte in [0, length) has been written: none is a byte of the uninitialized
\* tail, and the bytes a put_slice or put has added to the length, also one
\* that panicked on the way, are the first bytes of its input.
C22_LengthCoversWrittenBytes ==
    buf.kind = "vec" =>
        /\ \A i \in 1..len(buf) : buf.mem[i] # Uninit
        /\ last.op \in {"put_slice", "put"} =>
              /\ len(buf) - len(last.pre) <= Len(last.bytes)
              /\ SubSeq(buf.mem, len(last.pre) + 1, len(buf))
                    = SubSeq(last.bytes, 1, len(buf) - len(last.pre))

\* A put that has grown a Vec past its old capacity, with an unwritten tail.
C22_Witness ==
    /\ last.op = "put"
    /\ buf.kind = "vec"
    /\ len(last.pre) > 0
    /\ len(buf) > capacity(last.pre)
    /\ capacity(buf) > len(buf)
    /\ buf.mem[len(buf) + 1] = Uninit
    /\ \A i \in 1..len(buf) : buf.mem[i] # Uninit

\* C23: no call changes a byte before the position held when it started
\* (the written prefix of a Vec, the bytes of the region a view has passed);
\* and after a put_slice(a) that returned, put_slice(b) returns exactly when
\* put_slice(a ++ b) on the buffer before the two would, and then leaves the
\* buffer that one would leave.
C23_PassedBytesAreWriteOnce ==
    /\ SubSeq(buf.mem, 1, last.pre.pos) = SubSeq(last.pre.mem, 1, last.pre.pos)
    /\ buf.pos >= last.pre.pos
    /\ (last.op = "put_slice" /\ last.panic = NoPanic) =>
          \A b \in SliceInputs :
              LET two == put_slice(buf, b)
                  one == put_slice(last.pre, last.bytes \o b)
              IN  /\ (two.panic = NoPanic) <=> (one.panic = NoPanic)
                  /\ two.panic = NoPanic => two.buf = one.buf

\* A second write into a view whose first bytes an earlier call has written.
C23_Witness ==
    /\ last.op = "put_slice"
    /\ last.pre.kind = "slice"
    /\ last.pre.pos > 0
    /\ last.cnt > 0
    /\ last.panic = NoPanic
    /\ steps > 1
    /\ \A i \in 1..last.pre.pos : buf.mem[i] # 0
    /\ SubSeq(buf.mem, 1, last.pre.pos) = SubSeq(last.pre.mem, 1, last.pre.pos)
    /\ buf.pos = last.pre.pos + last.cnt

\* C24: in every reachable state put_slice of an empty slice returns and
\* leaves position, length, capacity and contents as they were, also on an
\* exhausted fixed view and on a Vec with capacity == length.
C24_EmptySliceIsNoOp ==
    /\ put_slice(buf, <<>>).panic = NoPanic
    /\ put_slice(buf, <<>>).buf = buf
    /\ (last.op = "put_slice" /\ last.cnt = 0) =>
          (last.panic = NoPanic /\ buf = last.pre)

\* The empty slice put into a full Vec that cannot grow any more.
C24_Witness ==
    /\ last.op = "put_slice"
    /\ last.cnt = 0
    /\ last.pre = Zeroed(MaxCapacity)
    /\ bytes_mut(last.pre).panic # NoPanic
    /\ last.panic = NoPanic
    /\ buf = last.pre


====
